---- MODULE Spec2Model ----
(***************************************************************************)
(* Model of the react-native-classicbluetooth-sdk wrappers:                *)
(*   src/src/permission.ts   (Permission Gateway)                          *)
(*   src/unnamed/part_000    (Bluetooth Session Facade)                    *)
(* Each exported async function is a starting action (the synchronous part *)
(* up to its first await) followed by one action per await, whose input is *)
(* the way the native binding settles the awaited promise.                 *)
(***************************************************************************)
EXTENDS Integers, Sequences, FiniteSets, TLC

\* ------------------------------------------------------------------ bounds
NumDevices == 2        \* device ids 1..NumDevices
NumNativeErrors == 2   \* distinct errors the native binding may reject with
MaxSubs == 2           \* longest subscription list given to cleanupSubscriptions
MaxItems == 1          \* longest device list / data length / byte count
NumSubIds == 2         \* distinct subscriptions
MaxCallbacks == 2      \* callbacks the geolocation binding may deliver to one call

\* ------------------------------------------------------------- JS values
Bool(b) == [t |-> "boolean", v |-> IF b THEN "true" ELSE "false", n |-> 0]
Undef == [t |-> "undefined", v |-> "", n |-> 0]
Null == [t |-> "null", v |-> "", n |-> 0]
Dev(i) == [t |-> "device", v |-> "", n |-> i]
DevList(k) == [t |-> "list", v |-> "", n |-> k]
Num(k) == [t |-> "number", v |-> "", n |-> k]
Str(k) == [t |-> "string", v |-> "", n |-> k]
NativeError(i) == [t |-> "error", v |-> "native", n |-> i]
JsError(msg, i) == [t |-> "error", v |-> msg, n |-> i]

\* JS truthiness, as used by `!x` and `if (x)`
Truthy(x) ==
  ~ \/ x.t \in {"undefined", "null"}
    \/ x = Bool(FALSE)
    \/ (x.t = "number" /\ x.n = 0)
    \/ (x.t = "string" /\ x.n = 0)

Devices == {Dev(i) : i \in 1..NumDevices}
DeviceIds == 1..NumDevices
NativeErrors == {NativeError(i) : i \in 1..NumNativeErrors}
Falsy == {Bool(FALSE), Null, Undef}
Bools == {Bool(TRUE), Bool(FALSE)}
DevLists == {DevList(k) : k \in 0..MaxItems}

\* ------------------------------------------------- promises and outcomes
Resolved(x) == [kind |-> "resolved", val |-> x]
Rejected(x) == [kind |-> "rejected", val |-> x]
Pending == [kind |-> "pending", val |-> Undef]
Settles(vals) == {Resolved(x) : x \in vals} \cup {Rejected(e) : e \in NativeErrors}

Log(level, msg, x) == [level |-> level, msg |-> msg, val |-> x]
\* what a handler's continuation does: the way the call settles, the toasts
\* it shows and the console entries it writes
Eff(out, ts, ls) == [outcome |-> out, toasts |-> ts, logs |-> ls]

\* ---------------------------------------------------------- permission.ts
ALL_PERMISSIONS == <<"BLUETOOTH_SCAN", "BLUETOOTH_CONNECT", "ACCESS_FINE_LOCATION">>
PermIdx == 1..Len(ALL_PERMISSIONS)
GRANTED == "granted"
RequestResults == {"granted", "denied", "never_ask_again"}

\* the ways PermissionsAndroid.requestMultiple may settle
RequestSettles ==
  {Resolved(g) : g \in [PermIdx -> RequestResults]} \cup {Rejected(e) : e \in NativeErrors}

\* the ways the three PermissionsAndroid.check promises may settle
CheckSettles == [PermIdx -> Settles(Bools)]

NotGrantedLogs(notGranted) ==
  IF notGranted = {} THEN <<>> ELSE <<Log("warn", "is not granted.", Num(Cardinality(notGranted)))>>

\* mutant: a permission counts as granted unless its result is "denied"
RequestAllSettleNotDenied(b) ==
  IF b.kind = "rejected"
  THEN Eff(Resolved(Bool(FALSE)), <<>>, <<Log("error", "Error requesting permissions", b.val)>>)
  ELSE LET allGranted == \A i \in PermIdx : b.val[i] # "denied"
           notGranted == {i \in PermIdx : b.val[i] = "denied"}
       IN IF ~allGranted
          THEN Eff(Resolved(Bool(FALSE)), <<>>, NotGrantedLogs(notGranted))
          ELSE Eff(Resolved(Bool(allGranted)), <<>>, <<Log("log", "ALL GRANTED", Bool(allGranted))>>)

\* requestAllPermissions after `await PermissionsAndroid.requestMultiple(...)`
RequestAllSettle(b) ==
  IF b.kind = "rejected"
  THEN Eff(Resolved(Bool(FALSE)), <<>>, <<Log("error", "Error requesting permissions", b.val)>>)
  ELSE LET allGranted == \A i \in PermIdx : b.val[i] = GRANTED
           notGranted == {i \in PermIdx : b.val[i] # GRANTED}
       IN IF ~allGranted
          THEN Eff(Resolved(Bool(FALSE)), <<>>, NotGrantedLogs(notGranted))
          ELSE Eff(Resolved(Bool(allGranted)), <<>>, <<Log("log", "ALL GRANTED", Bool(allGranted))>>)

\* checkAllPermissions after `await Promise.all(...)`.  Promise.all rejects
\* with the rejection that happens first in time: `first` is the index of
\* that check (0 when no check rejects)
CheckAllSettle(rs, first) ==
  IF \E i \in PermIdx : rs[i].kind = "rejected"
  THEN Eff(Resolved(Bool(FALSE)), <<>>,
           <<Log("error", "Error checking permissions", rs[first].val)>>)
  ELSE LET allGranted == \A i \in PermIdx : Truthy(rs[i].val)
           notGranted == {i \in PermIdx : ~Truthy(rs[i].val)}
       IN IF ~allGranted
          THEN Eff(Resolved(Bool(FALSE)), <<>>, NotGrantedLogs(notGranted))
          ELSE Eff(Resolved(Bool(allGranted)), <<>>, <<>>)

\* the indices Promise.all may report as the first rejection
FirstRejections(rs) ==
  IF \E i \in PermIdx : rs[i].kind = "rejected"
  THEN {i \in PermIdx : rs[i].kind = "rejected"}
  ELSE {0}

\* the causes the geolocation binding may report to the error callback; the
\* `timeout: 15000` option elapsing is one of them
PositionErrors == {"timeout", "unavailable"}

\* resolve(x) of `new Promise((resolve) => ...)`: only the first call settles
PromiseResolve(current, x) ==
  IF current.kind = "pending" THEN Resolved(x) ELSE current

\* requestLocationService: the success callback, `() => { resolve(true) }`
OnPositionSuccess(current) == Eff(PromiseResolve(current, Bool(TRUE)), <<>>, <<>>)

\* mutant: the error callback rejects the promise
OnPositionErrorReject(current, error) ==
  Eff(IF current.kind = "pending" THEN Rejected(JsError(error, 0)) ELSE current, <<>>,
      <<Log("error", error, Undef)>>)

\* requestLocationService: the error callback,
\* `(error) => { resolve(false); console.error(error.message) }`
OnPositionError(current, error) ==
  Eff(PromiseResolve(current, Bool(FALSE)), <<>>, <<Log("error", error, Undef)>>)

\* ------------------------------------------------- Bluetooth facade: pure
\* isBluetoothEnabled after `await RNBluetoothClassic.isBluetoothEnabled()`
IsBluetoothEnabledSettle(b) ==
  IF b.kind = "resolved"
  THEN Eff(Resolved(b.val), <<>>, <<>>)
  ELSE Eff(Rejected(JsError("Failed to check if Bluetooth is enabled", 0)), <<>>,
           <<Log("error", "", b.val)>>)

\* enableBluetooth after `await RNBluetoothClassic.requestBluetoothEnabled()`:
\* the function has no return statement
EnableBluetoothSettle(b) ==
  IF b.kind = "resolved"
  THEN Eff(Resolved(Undef), <<>>, <<>>)
  ELSE Eff(Rejected(JsError("Failed to enable Bluetooth", 0)), <<>>,
           <<Log("error", "Error enabling Bluetooth", b.val)>>)

\* mutant: the permission branch is tested before the enabled branch
StartDiscoveryBranchPermissionFirst(isBLenabled, allPermission) ==
  IF ~Truthy(allPermission) THEN "permission"
  ELSE IF ~Truthy(isBLenabled) THEN "enable"
  ELSE "discover"

\* mutant: the permission branch is missing
StartDiscoveryBranchNoPermission(isBLenabled, allPermission) ==
  IF ~Truthy(isBLenabled) THEN "enable" ELSE "discover"

\* startDiscovery: the if / else if / else over the two checks
StartDiscoveryBranch(isBLenabled, allPermission) ==
  IF ~Truthy(isBLenabled) THEN "enable"
  ELSE IF ~Truthy(allPermission) THEN "permission"
  ELSE "discover"

\* mutant: the cancel sits at the end of the try block instead of in a finally
StartDiscoveryTryNoFinally(b) ==
  IF b.kind = "resolved"
  THEN [completion |-> Resolved(b.val), logs |-> <<>>, finally |-> TRUE]
  ELSE [completion |-> Resolved(b.val), logs |-> <<Log("error", "", b.val)>>, finally |-> FALSE]

\* startDiscovery: try { return await startDiscovery() } catch { return error }
\* gives the completion the finally block will let through; `finally` says
\* whether the finally block runs
StartDiscoveryTry(b) ==
  IF b.kind = "resolved"
  THEN [completion |-> Resolved(b.val), logs |-> <<>>, finally |-> TRUE]
  ELSE [completion |-> Resolved(b.val), logs |-> <<Log("error", "", b.val)>>, finally |-> TRUE]

\* startDiscovery: finally { await cancelDiscovery(); console.log(...) }
StartDiscoveryFinally(completion, b) ==
  IF b.kind = "resolved"
  THEN Eff(completion, <<>>, <<Log("log", "Discovery stopped", Undef)>>)
  ELSE Eff(Rejected(b.val), <<>>, <<>>)

Toast(msg, i) == [msg |-> msg, n |-> i]

\* stopDiscovery after `await RNBluetoothClassic.cancelDiscovery()`
StopDiscoverySettle(b) ==
  IF b.kind = "resolved"
  THEN Eff(Resolved(Undef), <<>>, <<Log("log", "", b.val)>>)
  ELSE Eff(Resolved(Undef),
           <<Toast("Error occurred while attempting to cancel discover devices", 0)>>, <<>>)

\* mutant: the catch block rethrows after the toast
ConnectDeviceSettleRethrow(deviceId, b) ==
  IF b.kind = "resolved" /\ Truthy(b.val)
  THEN Eff(Resolved(b.val), <<>>, <<Log("log", "Connected to device: ", Num(deviceId))>>)
  ELSE Eff(Rejected(IF b.kind = "rejected" THEN b.val
                    ELSE JsError("Failed to connect to device: ", deviceId)),
           <<Toast("Error connecting to device: ", deviceId)>>, <<>>)

\* connectDevice after `await RNBluetoothClassic.connectToDevice(deviceId, ...)`
ConnectDeviceSettle(deviceId, b) ==
  IF b.kind = "resolved" /\ Truthy(b.val)
  THEN Eff(Resolved(b.val), <<>>, <<Log("log", "Connected to device: ", Num(deviceId))>>)
  ELSE Eff(Resolved(Bool(FALSE)), <<Toast("Error connecting to device: ", deviceId)>>, <<>>)

\* the error the catch block of disconnectDevice / pairDevice / unPairDevice
\* receives: the binding's rejection, or the Error thrown on a falsy result
CaughtOrThrown(b, msg, deviceId) ==
  IF b.kind = "rejected" THEN b.val ELSE JsError(msg, deviceId)

\* disconnectDevice after `await RNBluetoothClassic.disconnectFromDevice(deviceId)`
DisconnectDeviceSettle(deviceId, b) ==
  IF b.kind = "resolved" /\ Truthy(b.val)
  THEN Eff(Resolved(b.val), <<>>, <<Log("log", "Disconnected from device: ", Num(deviceId))>>)
  ELSE LET error == CaughtOrThrown(b, "Failed to disconnect from device: ", deviceId)
       IN Eff(Rejected(error), <<>>, <<Log("error", "Error disconnecting from device: ", error)>>)

\* mutant: the `if (!paired) throw` check is missing
PairDeviceSettleNoCheck(deviceId, b) ==
  IF b.kind = "resolved"
  THEN Eff(Resolved(b.val), <<>>, <<>>)
  ELSE Eff(Rejected(b.val), <<>>, <<Log("error", "Error pairing with device: ", b.val)>>)

\* pairDevice after `await RNBluetoothClassic.pairDevice(deviceId)`
PairDeviceSettle(deviceId, b) ==
  IF b.kind = "resolved" /\ Truthy(b.val)
  THEN Eff(Resolved(b.val), <<>>, <<>>)
  ELSE LET error == CaughtOrThrown(b, "Failed to pair with device: ", deviceId)
       IN Eff(Rejected(error), <<>>, <<Log("error", "Error pairing with device: ", error)>>)

\* unPairDevice after `await RNBluetoothClassic.unpairDevice(deviceId)`
UnPairDeviceSettle(deviceId, b) ==
  IF b.kind = "resolved" /\ Truthy(b.val)
  THEN Eff(Resolved(b.val), <<>>, <<>>)
  ELSE LET error == CaughtOrThrown(b, "Failed to unpair with device: ", deviceId)
       IN Eff(Rejected(error), <<>>, <<Log("error", "Error unpairing with device: ", error)>>)

\* mutant: the catch block throws, as the one of getBondedDevices does
GetPairedDevicesSettleThrow(b) ==
  IF b.kind = "resolved"
  THEN Eff(Resolved(b.val), <<>>, <<>>)
  ELSE Eff(Rejected(JsError("Failed to fetch bonded devices", 0)), <<>>,
           <<Log("error", "Error getting paired devices", b.val)>>)

\* getPairedDevices after `await RNBluetoothClassic.getBondedDevices()`
GetPairedDevicesSettle(b) ==
  IF b.kind = "resolved"
  THEN Eff(Resolved(b.val), <<>>, <<>>)
  ELSE Eff(Resolved(DevList(0)), <<>>, <<Log("error", "Error getting paired devices", b.val)>>)

\* getConnectedDevice after `await RNBluetoothClassic.getConnectedDevices()`
GetConnectedDeviceSettle(b) ==
  IF b.kind = "resolved"
  THEN Eff(Resolved(b.val), <<>>, <<>>)
  ELSE Eff(Resolved(DevList(0)), <<>>, <<Log("error", "Error getting connected devices", b.val)>>)

\* mutant: the catch block rethrows the binding's error
GetBondedDevicesSettleRethrow(b) ==
  IF b.kind = "resolved"
  THEN Eff(Resolved(b.val), <<>>, <<>>)
  ELSE Eff(Rejected(b.val), <<>>, <<Log("error", "Error fetching bonded devices:", b.val)>>)

\* getBondedDevices after `await RNBluetoothClassic.getBondedDevices()`
GetBondedDevicesSettle(b) ==
  IF b.kind = "resolved"
  THEN Eff(Resolved(b.val), <<>>, <<>>)
  ELSE Eff(Rejected(JsError("Failed to fetch bonded devices", 0)), <<>>,
           <<Log("error", "Error fetching bonded devices:", b.val)>>)

\* mutant: the catch block also shows a toast
OpenBluetoothSettingsSettleToastOnFailure(b) ==
  IF b.kind = "resolved"
  THEN Eff(Resolved(Undef), <<Toast("Bluetooth settings opened", 0)>>, <<>>)
  ELSE Eff(Rejected(JsError("Failed to open Bluetooth settings", 0)),
           <<Toast("Failed to open Bluetooth settings", 0)>>,
           <<Log("error", "Error opening Bluetooth settings:", b.val)>>)

\* openBluetoothSettings after `await RNBluetoothClassic.openBluetoothSettings()`
OpenBluetoothSettingsSettle(b) ==
  IF b.kind = "resolved"
  THEN Eff(Resolved(Undef), <<Toast("Bluetooth settings opened", 0)>>, <<>>)
  ELSE Eff(Rejected(JsError("Failed to open Bluetooth settings", 0)), <<>>,
           <<Log("error", "Error opening Bluetooth settings:", b.val)>>)

\* the Error thrown by `if (!device) throw new Error("No device connected.")`
NoDeviceError == JsError("No device connected.", 0)

\* mutant: the guard sits before the try block, so its Error reaches the caller
ReadStartGuardOutsideTry(device) ==
  IF ~Truthy(device)
  THEN [invoke |-> FALSE, eff |-> Eff(Rejected(JsError("No device connected.", 0)), <<>>, <<>>)]
  ELSE [invoke |-> TRUE, eff |-> Eff(Pending, <<>>, <<>>)]

\* read, synchronous part: the guard on the device, inside the try block.
\* `invoke` says whether device.read() is called
ReadStart(device) ==
  IF ~Truthy(device)
  THEN [invoke |-> FALSE,
        eff |-> Eff(Rejected(JsError("Failed to read data from device", 0)), <<>>,
                    <<Log("error", "Error reading data from device:", NoDeviceError)>>)]
  ELSE [invoke |-> TRUE, eff |-> Eff(Pending, <<>>, <<>>)]

\* read after `await device.read()`
ReadSettle(b) ==
  IF b.kind = "resolved"
  THEN Eff(Resolved(b.val), <<>>, <<Log("log", "Data read from device: ", b.val)>>)
  ELSE Eff(Rejected(JsError("Failed to read data from device", 0)), <<>>,
           <<Log("error", "Error reading data from device:", b.val)>>)

\* write, synchronous part
WriteStart(device, data) ==
  IF ~Truthy(device)
  THEN [invoke |-> FALSE,
        eff |-> Eff(Rejected(JsError("Failed to write data to device", 0)), <<>>,
                    <<Log("error", "Error writing data to device: ", NoDeviceError)>>)]
  ELSE [invoke |-> TRUE, eff |-> Eff(Pending, <<>>, <<>>)]

\* write after `await device.write(data)`
WriteSettle(data, b) ==
  IF b.kind = "resolved"
  THEN Eff(Resolved(b.val), <<>>,
           IF Truthy(b.val) THEN <<Log("log", "Data written to device: ", data)>> ELSE <<>>)
  ELSE Eff(Rejected(JsError("Failed to write data to device", 0)), <<>>,
           <<Log("error", "Error writing data to device: ", b.val)>>)

\* available, synchronous part
AvailableStart(device) ==
  IF ~Truthy(device)
  THEN [invoke |-> FALSE,
        eff |-> Eff(Rejected(JsError("Failed to check available bytes", 0)), <<>>,
                    <<Log("error", "Error checking available bytes:", NoDeviceError)>>)]
  ELSE [invoke |-> TRUE, eff |-> Eff(Pending, <<>>, <<>>)]

\* available after `await device.available()`
AvailableSettle(b) ==
  IF b.kind = "resolved"
  THEN Eff(Resolved(b.val), <<>>, <<Log("log", "Bytes available to read: ", b.val)>>)
  ELSE Eff(Rejected(JsError("Failed to check available bytes", 0)), <<>>,
           <<Log("error", "Error checking available bytes:", b.val)>>)

\* clear, synchronous part
ClearStart(device) ==
  IF ~Truthy(device)
  THEN [invoke |-> FALSE,
        eff |-> Eff(Rejected(JsError("Failed to clear buffer", 0)), <<>>,
                    <<Log("error", "Error clearing buffer:", NoDeviceError)>>)]
  ELSE [invoke |-> TRUE, eff |-> Eff(Pending, <<>>, <<>>)]

\* clear after `await device.clear()`
ClearSettle(b) ==
  IF b.kind = "resolved"
  THEN Eff(Resolved(b.val), <<>>, <<Log("log", "Buffer cleared", Undef)>>)
  ELSE Eff(Rejected(JsError("Failed to clear buffer", 0)), <<>>,
           <<Log("error", "Error clearing buffer:", b.val)>>)

\* A Subscription: `id` names it, `err` is 0 when remove() returns and the
\* number of the error remove() throws otherwise
Subscriptions == [id : 1..NumSubIds, err : 0..NumNativeErrors]
RECURSIVE SeqsUpTo(_, _)
SeqsUpTo(S, k) ==
  IF k = 0 THEN {<<>>}
  ELSE LET shorter == SeqsUpTo(S, k - 1)
       IN shorter \cup {Append(q, x) : q \in {r \in shorter : Len(r) = k - 1}, x \in S}

Returned(x) == [kind |-> "returned", val |-> x]
Thrown(x) == [kind |-> "thrown", val |-> x]

\* subscriptions.forEach((subscription) => subscription.remove()) from index
\* i on: an exception thrown by the callback ends forEach and propagates
RECURSIVE ForEachRemove(_, _, _)
ForEachRemove(subscriptions, i, done) ==
  IF i > Len(subscriptions)
  THEN [removed |-> done, outcome |-> Returned(Undef)]
  ELSE IF subscriptions[i].err # 0
       THEN [removed |-> Append(done, subscriptions[i].id),
             outcome |-> Thrown(NativeError(subscriptions[i].err))]
       ELSE ForEachRemove(subscriptions, i + 1, Append(done, subscriptions[i].id))

\* cleanupSubscriptions(subscriptions)
CleanupSubscriptionsRun(subscriptions) == ForEachRemove(subscriptions, 1, <<>>)

\* ------------------------------------------------------------------ state
VARIABLES
  op,       \* the exported function of the current (or last) call
  pc,       \* the await the call is suspended at, "done" when it has settled
  args,     \* the arguments of the call
  locals,   \* startDiscovery's local variables; the callbacks delivered to requestLocationService
  calls,    \* native primitives invoked by the call, in order, with the way each settled
  toasts,   \* ToastAndroid.show invocations of the call
  logs,     \* console entries of the call
  outcome,  \* how the call's promise settled (or returned / threw)
  removed   \* ids of the subscriptions whose remove() the call invoked, in order

vars == <<op, pc, args, locals, calls, toasts, logs, outcome, removed>>

NoArgs == [deviceId |-> 0, device |-> Undef, data |-> Undef, subs |-> <<>>]
NoLocals ==
  [isBLenabled |-> Undef, allPermission |-> Undef, completion |-> Pending, callbacks |-> <<>>]

Init ==
  /\ op = "none"
  /\ pc = "done"
  /\ args = NoArgs
  /\ locals = NoLocals
  /\ calls = <<>>
  /\ toasts = <<>>
  /\ logs = <<>>
  /\ outcome = Pending
  /\ removed = <<>>

Invoked(prims) == [i \in 1..Len(prims) |-> [prim |-> prims[i], out |-> Pending]]
SettleLast(cs, b) == [cs EXCEPT ![Len(cs)].out = b]

\* a caller starts a call of `o`: the code runs up to its first await
Begin(o, a, prims, nextpc) ==
  /\ pc = "done"
  /\ op' = o
  /\ args' = a
  /\ locals' = NoLocals
  /\ calls' = Invoked(prims)
  /\ toasts' = <<>>
  /\ logs' = <<>>
  /\ outcome' = Pending
  /\ removed' = <<>>
  /\ pc' = nextpc

\* a call that settles without awaiting anything
BeginDone(o, a, e) ==
  /\ pc = "done"
  /\ op' = o
  /\ args' = a
  /\ locals' = NoLocals
  /\ calls' = <<>>
  /\ toasts' = e.toasts
  /\ logs' = e.logs
  /\ outcome' = e.outcome
  /\ removed' = <<>>
  /\ pc' = "done"

\* the call settles
Finish(e) ==
  /\ outcome' = e.outcome
  /\ toasts' = toasts \o e.toasts
  /\ logs' = logs \o e.logs
  /\ pc' = "done"

\* the single awaited primitive of `o` settles as b and the call finishes with e
SettleWith(o, b, e) ==
  /\ op = o
  /\ pc = "await"
  /\ calls' = SettleLast(calls, b)
  /\ Finish(e)
  /\ UNCHANGED <<op, args, locals, removed>>

\* ------------------------------------------------- permission.ts: actions
RequestAllPermissionsCall ==
  Begin("requestAllPermissions", NoArgs, <<"requestMultiple">>, "await")

RequestAllPermissionsSettle ==
  \E b \in RequestSettles :
    SettleWith("requestAllPermissions", b, RequestAllSettle(b))

CheckPrims == [i \in PermIdx |-> "check"]
\* the last three entries of cs are the three checks: record how each settled
SettleChecks(cs, rs) ==
  [k \in 1..Len(cs) |->
     IF k > Len(cs) - Len(ALL_PERMISSIONS)
     THEN [cs[k] EXCEPT !.out = rs[k - (Len(cs) - Len(ALL_PERMISSIONS))]]
     ELSE cs[k]]

CheckAllPermissionsCall ==
  Begin("checkAllPermissions", NoArgs, CheckPrims, "await")

CheckAllPermissionsSettle ==
  /\ op = "checkAllPermissions"
  /\ pc = "await"
  /\ \E rs \in CheckSettles : \E first \in FirstRejections(rs) :
       /\ calls' = SettleChecks(calls, rs)
       /\ Finish(CheckAllSettle(rs, first))
  /\ UNCHANGED <<op, args, locals, removed>>

\* requestLocationService: the executor calls Geolocation.getCurrentPosition
\* with the two callbacks and the options, and returns the promise
RequestLocationServiceCall ==
  Begin("requestLocationService", NoArgs, <<"getCurrentPosition">>, "position")

\* the binding delivers a callback to the call (the latest one) of
\* requestLocationService: the first, or a further one after the promise settled
Delivered(cb, e) ==
  /\ op = "requestLocationService"
  /\ Len(locals.callbacks) < MaxCallbacks
  /\ locals' = [locals EXCEPT !.callbacks = Append(@, cb)]
  /\ calls' = IF calls[1].out.kind = "pending" THEN SettleLast(calls, Resolved(Undef)) ELSE calls
  /\ Finish(e)
  /\ UNCHANGED <<op, args, removed>>

\* the binding invokes the success callback
PositionSuccess == Delivered("success", OnPositionSuccess(outcome))

\* the binding invokes the error callback
PositionError ==
  \E error \in PositionErrors : Delivered(error, OnPositionError(outcome, error))

\* --------------------------------------------------- part_000: actions
IsBluetoothEnabledCall ==
  Begin("isBluetoothEnabled", NoArgs, <<"isBluetoothEnabled">>, "await")

IsBluetoothEnabledReturn ==
  \E b \in Settles(Bools) :
    SettleWith("isBluetoothEnabled", b, IsBluetoothEnabledSettle(b))

EnableBluetoothCall ==
  Begin("enableBluetooth", NoArgs, <<"requestBluetoothEnabled">>, "await")

EnableBluetoothReturn ==
  \E b \in Settles(Bools) :
    SettleWith("enableBluetooth", b, EnableBluetoothSettle(b))

\* startDiscovery up to `await isBluetoothEnabled()`
StartDiscoveryCall ==
  Begin("startDiscovery", NoArgs, <<"isBluetoothEnabled">>, "isEnabled")

\* `const isBLenabled = await isBluetoothEnabled()`; a rejection propagates,
\* otherwise checkAllPermissions() is called and awaited
StartDiscoveryIsEnabled ==
  /\ op = "startDiscovery"
  /\ pc = "isEnabled"
  /\ \E b \in Settles(Bools) :
       LET e == IsBluetoothEnabledSettle(b)
       IN IF e.outcome.kind = "rejected"
          THEN /\ calls' = SettleLast(calls, b)
               /\ Finish(e)
               /\ UNCHANGED locals
          ELSE /\ calls' = SettleLast(calls, b) \o Invoked(CheckPrims)
               /\ locals' = [locals EXCEPT !.isBLenabled = e.outcome.val]
               /\ logs' = logs \o e.logs
               /\ pc' = "permissions"
               /\ UNCHANGED <<outcome, toasts>>
  /\ UNCHANGED <<op, args, removed>>

\* `const allPermission = await checkAllPermissions()` and the branch on the
\* two checks, up to the next await or the return
StartDiscoveryPermissions ==
  /\ op = "startDiscovery"
  /\ pc = "permissions"
  /\ \E rs \in CheckSettles : \E first \in FirstRejections(rs) :
       LET e == CheckAllSettle(rs, first)
           allPermission == e.outcome.val
           cs == SettleChecks(calls, rs)
           branch == StartDiscoveryBranch(locals.isBLenabled, allPermission)
       IN /\ locals' = [locals EXCEPT !.allPermission = allPermission]
          /\ logs' = logs \o e.logs
          /\ CASE branch = "enable" ->
                    /\ calls' = cs \o Invoked(<<"requestBluetoothEnabled">>)
                    /\ pc' = "enable"
                    /\ UNCHANGED outcome
               [] branch = "permission" ->
                    /\ calls' = cs
                    /\ outcome' = Resolved(allPermission)
                    /\ pc' = "done"
               [] branch = "discover" ->
                    /\ calls' = cs \o Invoked(<<"startDiscovery">>)
                    /\ pc' = "discover"
                    /\ UNCHANGED outcome
  /\ UNCHANGED <<op, args, toasts, removed>>

\* `const enableBL = await enableBluetooth(); return enableBL`
StartDiscoveryEnable ==
  /\ op = "startDiscovery"
  /\ pc = "enable"
  /\ \E b \in Settles(Bools) :
       /\ calls' = SettleLast(calls, b)
       /\ Finish(EnableBluetoothSettle(b))
  /\ UNCHANGED <<op, args, locals, removed>>

\* the try / catch around `await RNBluetoothClassic.startDiscovery()`, then
\* the finally block up to `await RNBluetoothClassic.cancelDiscovery()`
StartDiscoveryDiscover ==
  /\ op = "startDiscovery"
  /\ pc = "discover"
  /\ \E b \in Settles(DevLists) :
       LET t == StartDiscoveryTry(b)
       IN /\ locals' = [locals EXCEPT !.completion = t.completion]
          /\ logs' = logs \o t.logs
          /\ IF t.finally
             THEN /\ calls' = SettleLast(calls, b) \o Invoked(<<"cancelDiscovery">>)
                  /\ pc' = "cancel"
                  /\ UNCHANGED outcome
             ELSE /\ calls' = SettleLast(calls, b)
                  /\ outcome' = t.completion
                  /\ pc' = "done"
  /\ UNCHANGED <<op, args, toasts, removed>>

\* the rest of the finally block
StartDiscoveryCancel ==
  /\ op = "startDiscovery"
  /\ pc = "cancel"
  /\ \E b \in Settles(Bools) :
       /\ calls' = SettleLast(calls, b)
       /\ Finish(StartDiscoveryFinally(locals.completion, b))
  /\ UNCHANGED <<op, args, locals, removed>>

StopDiscoveryCall ==
  Begin("stopDiscovery", NoArgs, <<"cancelDiscovery">>, "await")

StopDiscoveryReturn ==
  \E b \in Settles(Bools) :
    SettleWith("stopDiscovery", b, StopDiscoverySettle(b))

WithId(id) == [NoArgs EXCEPT !.deviceId = id]

ConnectDeviceCall ==
  \E id \in DeviceIds : Begin("connectDevice", WithId(id), <<"connectToDevice">>, "await")

ConnectDeviceReturn ==
  \E b \in Settles(Devices \cup Falsy) :
    SettleWith("connectDevice", b, ConnectDeviceSettle(args.deviceId, b))

DisconnectDeviceCall ==
  \E id \in DeviceIds :
    Begin("disconnectDevice", WithId(id), <<"disconnectFromDevice">>, "await")

DisconnectDeviceReturn ==
  \E b \in Settles({Bool(TRUE)} \cup Falsy) :
    SettleWith("disconnectDevice", b, DisconnectDeviceSettle(args.deviceId, b))

PairDeviceCall ==
  \E id \in DeviceIds : Begin("pairDevice", WithId(id), <<"pairDevice">>, "await")

PairDeviceReturn ==
  \E b \in Settles(Devices \cup Falsy) :
    SettleWith("pairDevice", b, PairDeviceSettle(args.deviceId, b))

UnPairDeviceCall ==
  \E id \in DeviceIds : Begin("unPairDevice", WithId(id), <<"unpairDevice">>, "await")

UnPairDeviceReturn ==
  \E b \in Settles({Bool(TRUE)} \cup Falsy) :
    SettleWith("unPairDevice", b, UnPairDeviceSettle(args.deviceId, b))

GetPairedDevicesCall ==
  Begin("getPairedDevices", NoArgs, <<"getBondedDevices">>, "await")

GetPairedDevicesReturn ==
  \E b \in Settles(DevLists) :
    SettleWith("getPairedDevices", b, GetPairedDevicesSettle(b))

GetConnectedDeviceCall ==
  Begin("getConnectedDevice", NoArgs, <<"getConnectedDevices">>, "await")

GetConnectedDeviceReturn ==
  \E b \in Settles(DevLists) :
    SettleWith("getConnectedDevice", b, GetConnectedDeviceSettle(b))

GetBondedDevicesCall ==
  Begin("getBondedDevices", NoArgs, <<"getBondedDevices">>, "await")

GetBondedDevicesReturn ==
  \E b \in Settles(DevLists) :
    SettleWith("getBondedDevices", b, GetBondedDevicesSettle(b))

OpenBluetoothSettingsCall ==
  Begin("openBluetoothSettings", NoArgs, <<"openBluetoothSettings">>, "await")

OpenBluetoothSettingsReturn ==
  \E b \in Settles({Undef}) :
    SettleWith("openBluetoothSettings", b, OpenBluetoothSettingsSettle(b))

\* cleanupSubscriptions is synchronous: the whole forEach is one step
CleanupSubscriptions ==
  \E subscriptions \in SeqsUpTo(Subscriptions, MaxSubs) :
    LET r == CleanupSubscriptionsRun(subscriptions)
    IN /\ pc = "done"
       /\ op' = "cleanupSubscriptions"
       /\ args' = [NoArgs EXCEPT !.subs = subscriptions]
       /\ locals' = NoLocals
       /\ calls' = <<>>
       /\ toasts' = <<>>
       /\ logs' = <<>>
       /\ outcome' = r.outcome
       /\ removed' = r.removed
       /\ pc' = "done"

\* the device arguments a caller may pass: a handle, or nothing
DeviceArgs == Devices \cup {Null, Undef}
DataArgs == {Str(k) : k \in 0..MaxItems}
WithDevice(d, x) == [NoArgs EXCEPT !.device = d, !.data = x]

\* a device operation up to its first await: the guard either throws (and the
\* catch block settles the call) or the device primitive is invoked
DeviceCall(o, a, s, prim) ==
  IF s.invoke THEN Begin(o, a, <<prim>>, "await") ELSE BeginDone(o, a, s.eff)

ReadCall ==
  \E d \in DeviceArgs :
    DeviceCall("read", WithDevice(d, Undef), ReadStart(d), "device.read")

ReadReturn ==
  \E b \in Settles(DataArgs) : SettleWith("read", b, ReadSettle(b))

WriteCall ==
  \E d \in DeviceArgs : \E x \in DataArgs :
    DeviceCall("write", WithDevice(d, x), WriteStart(d, x), "device.write")

WriteReturn ==
  \E b \in Settles(Bools) : SettleWith("write", b, WriteSettle(args.data, b))

AvailableCall ==
  \E d \in DeviceArgs :
    DeviceCall("available", WithDevice(d, Undef), AvailableStart(d), "device.available")

AvailableReturn ==
  \E b \in Settles({Num(k) : k \in 0..MaxItems}) :
    SettleWith("available", b, AvailableSettle(b))

ClearCall ==
  \E d \in DeviceArgs :
    DeviceCall("clear", WithDevice(d, Undef), ClearStart(d), "device.clear")

ClearReturn ==
  \E b \in Settles(Bools) : SettleWith("clear", b, ClearSettle(b))

Next ==
  \/ RequestAllPermissionsCall \/ RequestAllPermissionsSettle
  \/ CheckAllPermissionsCall \/ CheckAllPermissionsSettle
  \/ RequestLocationServiceCall \/ PositionSuccess \/ PositionError
  \/ IsBluetoothEnabledCall \/ IsBluetoothEnabledReturn
  \/ EnableBluetoothCall \/ EnableBluetoothReturn
  \/ StartDiscoveryCall \/ StartDiscoveryIsEnabled \/ StartDiscoveryPermissions
  \/ StartDiscoveryEnable \/ StartDiscoveryDiscover \/ StartDiscoveryCancel
  \/ StopDiscoveryCall \/ StopDiscoveryReturn
  \/ ConnectDeviceCall \/ ConnectDeviceReturn
  \/ DisconnectDeviceCall \/ DisconnectDeviceReturn
  \/ PairDeviceCall \/ PairDeviceReturn
  \/ UnPairDeviceCall \/ UnPairDeviceReturn
  \/ GetPairedDevicesCall \/ GetPairedDevicesReturn
  \/ GetConnectedDeviceCall \/ GetConnectedDeviceReturn
  \/ GetBondedDevicesCall \/ GetBondedDevicesReturn
  \/ OpenBluetoothSettingsCall \/ OpenBluetoothSettingsReturn
  \/ CleanupSubscriptions
  \/ ReadCall \/ ReadReturn
  \/ WriteCall \/ WriteReturn
  \/ AvailableCall \/ AvailableReturn
  \/ ClearCall \/ ClearReturn

Spec == Init /\ [][Next]_vars

\* ----------------------------------------------------------------- claims
Count(p) == Cardinality({i \in DOMAIN calls : calls[i].prim = p})
Called(p) == Count(p) > 0
IndexOf(p) == CHOOSE i \in DOMAIN calls : calls[i].prim = p
OutOf(p) == calls[IndexOf(p)].out
Done == pc = "done"

\* C1: in a startDiscovery call whose Bluetooth-enabled check yields false,
\* the binding's startDiscovery is never invoked, enableBluetooth is attempted
\* once, and the call settles exactly as that attempt does: it resolves with
\* undefined when the binding's request resolves and rejects with
\* "Failed to enable Bluetooth" when it rejects.
C1_DisabledGivesEnableOutcome ==
  (op = "startDiscovery" /\ locals.isBLenabled = Bool(FALSE)) =>
    /\ ~Called("startDiscovery")
    /\ ~Called("cancelDiscovery")
    /\ Count("requestBluetoothEnabled") <= 1
    /\ Done =>
         /\ Count("requestBluetoothEnabled") = 1
         /\ OutOf("requestBluetoothEnabled").kind = "resolved" => outcome = Resolved(Undef)
         /\ OutOf("requestBluetoothEnabled").kind = "rejected" =>
              outcome = Rejected(JsError("Failed to enable Bluetooth", 0))

C1_Witness ==
  /\ op = "startDiscovery"
  /\ Done
  /\ locals.isBLenabled = Bool(FALSE)
  /\ locals.allPermission = Bool(FALSE)
  /\ Called("requestBluetoothEnabled")
  /\ outcome = Rejected(JsError("Failed to enable Bluetooth", 0))

\* C2 as stated: whenever the permission check of a startDiscovery call yields
\* false, discovery is never invoked and the call resolves to false.
C2_Original ==
  (op = "startDiscovery" /\ locals.allPermission = Bool(FALSE)) =>
    /\ ~Called("startDiscovery")
    /\ Done => outcome = Resolved(Bool(FALSE))

\* C2 amended: whenever the permission check of a startDiscovery call yields
\* false, discovery is never invoked; if the Bluetooth-enabled check yielded
\* true the call resolves to false at once, and if it yielded false the call
\* goes on to the enableBluetooth attempt instead of returning false.
C2_PermissionMissing ==
  (op = "startDiscovery" /\ locals.allPermission = Bool(FALSE)) =>
    /\ ~Called("startDiscovery")
    /\ ~Called("cancelDiscovery")
    /\ Truthy(locals.isBLenabled) =>
         /\ Done
         /\ outcome = Resolved(Bool(FALSE))
         /\ ~Called("requestBluetoothEnabled")
    /\ ~Truthy(locals.isBLenabled) => Called("requestBluetoothEnabled")

C2_Witness ==
  /\ op = "startDiscovery"
  /\ Done
  /\ locals.isBLenabled = Bool(TRUE)
  /\ locals.allPermission = Bool(FALSE)
  /\ outcome = Resolved(Bool(FALSE))

\* C3: in startDiscovery, once the binding's startDiscovery has settled
\* (resolved or rejected), cancelDiscovery has been invoked exactly once, and
\* it is never invoked before or without the discovery attempt.
C3_CancelExactlyOnce ==
  op = "startDiscovery" =>
    /\ Count("cancelDiscovery") <= 1
    /\ Count("startDiscovery") <= 1
    /\ Called("cancelDiscovery") =>
         /\ Called("startDiscovery")
         /\ IndexOf("startDiscovery") < IndexOf("cancelDiscovery")
         /\ OutOf("startDiscovery").kind # "pending"
    /\ (Called("startDiscovery") /\ OutOf("startDiscovery").kind # "pending") =>
         Count("cancelDiscovery") = 1
    /\ (Called("startDiscovery") /\ Done) => Count("cancelDiscovery") = 1

C3_Witness ==
  /\ op = "startDiscovery"
  /\ Done
  /\ Called("startDiscovery")
  /\ OutOf("startDiscovery").kind = "rejected"
  /\ Count("cancelDiscovery") = 1
  /\ outcome = Resolved(OutOf("startDiscovery").val)

\* C4 as stated: when the binding's startDiscovery rejects with e, the
\* startDiscovery call resolves with e, however cancelDiscovery settles.
C4_DiscoveryErrorReturned ==
  (op = "startDiscovery" /\ Done /\ Called("startDiscovery")
     /\ OutOf("startDiscovery").kind = "rejected") =>
    outcome = Resolved(OutOf("startDiscovery").val)

\* C5 as stated: cleanupSubscriptions invokes remove once on every
\* subscription of the list, in list order, also when a remove throws.
C5_EveryOneRemoved ==
  op = "cleanupSubscriptions" =>
    /\ Len(removed) = Len(args.subs)
    /\ \A i \in 1..Len(args.subs) : removed[i] = args.subs[i].id

\* C6: connectDevice never rejects: it resolves to the binding's truthy
\* result, and to false when the binding rejects or resolves falsy.
C6_ConnectNeverRejects ==
  op = "connectDevice" =>
    /\ outcome.kind # "rejected"
    /\ Done =>
         /\ outcome.kind = "resolved"
         /\ IF calls[1].out.kind = "resolved" /\ Truthy(calls[1].out.val)
            THEN outcome.val = calls[1].out.val /\ outcome.val \in Devices
            ELSE outcome.val = Bool(FALSE)

C6_Witness ==
  /\ op = "connectDevice"
  /\ Done
  /\ calls[1].out.kind = "rejected"
  /\ outcome = Resolved(Bool(FALSE))

\* C7: disconnectDevice, pairDevice and unPairDevice resolve only to the
\* binding's truthy result; in every other case (binding rejects, or resolves
\* with false / null / undefined) they reject.
C7_NoFalsySentinel ==
  (op \in {"disconnectDevice", "pairDevice", "unPairDevice"} /\ Done) =>
    /\ outcome.kind \in {"resolved", "rejected"}
    /\ outcome.kind = "resolved" => Truthy(outcome.val) /\ outcome.val = calls[1].out.val
    /\ (calls[1].out.kind = "rejected" \/ ~Truthy(calls[1].out.val)) =>
         outcome.kind = "rejected"

C7_Witness ==
  /\ op = "pairDevice"
  /\ Done
  /\ calls[1].out = Resolved(Null)
  /\ outcome.kind = "rejected"

DeviceOps == {"read", "write", "available", "clear"}

\* C8 as stated: read / write / available / clear on a null device reject
\* with the "No device connected." error without invoking any primitive.
C8_Original ==
  (op \in DeviceOps /\ Done /\ ~Truthy(args.device)) =>
    /\ outcome.kind = "rejected"
    /\ outcome.val.v = "No device connected."
    /\ calls = <<>>

GenericMessage(o) ==
  CASE o = "read" -> "Failed to read data from device"
    [] o = "write" -> "Failed to write data to device"
    [] o = "available" -> "Failed to check available bytes"
    [] o = "clear" -> "Failed to clear buffer"
    [] o = "getBondedDevices" -> "Failed to fetch bonded devices"

\* C8 amended: read / write / available / clear on a null (or undefined)
\* device reject at once, without invoking any primitive, with the operation's
\* generic error ("Failed to read data from device", ...); the
\* "No device connected." error is only written to the console.
C8_NullDeviceRejectsGeneric ==
  (op \in DeviceOps /\ ~Truthy(args.device)) =>
    /\ Done
    /\ calls = <<>>
    /\ outcome = Rejected(JsError(GenericMessage(op), 0))
    /\ Len(logs) = 1
    /\ logs[1].level = "error"
    /\ logs[1].val = JsError("No device connected.", 0)

C8_Witness ==
  /\ op = "write"
  /\ Done
  /\ args.device = Null
  /\ args.data = Str(1)
  /\ outcome = Rejected(JsError("Failed to write data to device", 0))

\* C9: requestAllPermissions and checkAllPermissions never reject, and
\* resolve to true exactly when the binding call(s) resolve and each of the
\* three permissions is granted; otherwise they resolve to false.
C9_AllGrantedIff ==
  /\ (op = "requestAllPermissions" /\ Done) =>
       /\ outcome.kind = "resolved"
       /\ outcome.val \in Bools
       /\ outcome.val = Bool(TRUE) <=>
            /\ calls[1].out.kind = "resolved"
            /\ \A i \in PermIdx : calls[1].out.val[i] = "granted"
  /\ (op = "checkAllPermissions" /\ Done) =>
       /\ outcome.kind = "resolved"
       /\ outcome.val \in Bools
       /\ Len(calls) = 3
       /\ outcome.val = Bool(TRUE) <=>
            \A i \in PermIdx : calls[i].out = Resolved(Bool(TRUE))
  /\ op \in {"requestAllPermissions", "checkAllPermissions"} => outcome.kind # "rejected"

C9_Witness ==
  /\ op = "requestAllPermissions"
  /\ Done
  /\ calls[1].out.kind = "resolved"
  /\ calls[1].out.val[1] = "granted"
  /\ calls[1].out.val[2] = "granted"
  /\ calls[1].out.val[3] = "never_ask_again"
  /\ outcome = Resolved(Bool(FALSE))

\* C10 as stated: when the binding rejects with e, pairDevice,
\* disconnectDevice, read, write and getBondedDevices reject with a
\* replacement error, never with e itself.
C10_Original ==
  (op \in {"pairDevice", "disconnectDevice", "read", "write", "getBondedDevices"}
     /\ Done /\ calls # <<>> /\ calls[1].out.kind = "rejected") =>
    /\ outcome.kind = "rejected"
    /\ outcome.val # calls[1].out.val

\* C10 amended: when the binding rejects with e, read, write and
\* getBondedDevices reject with their generic replacement error, while
\* pairDevice and disconnectDevice log e and reject with e itself.
C10_ReplacedOrRethrown ==
  (Done /\ calls # <<>> /\ calls[1].out.kind = "rejected") =>
    /\ op \in {"read", "write", "getBondedDevices"} =>
         /\ outcome = Rejected(JsError(GenericMessage(op), 0))
         /\ outcome.val # calls[1].out.val
    /\ op \in {"pairDevice", "disconnectDevice"} =>
         outcome = Rejected(calls[1].out.val)

C10_Witness ==
  /\ op = "pairDevice"
  /\ Done
  /\ calls[1].out = Rejected(NativeError(1))
  /\ outcome = Rejected(NativeError(1))

\* the call's single awaited primitive failed: it rejected
FirstRejected == calls # <<>> /\ calls[1].out.kind = "rejected"
\* connectDevice failed: the binding rejected or resolved with a falsy value
ConnectFailed ==
  /\ op = "connectDevice"
  /\ calls[1].out.kind = "rejected" \/ ~Truthy(calls[1].out.val)

\* C11 as stated: a call shows a toast exactly when it is stopDiscovery whose
\* cancel failed, connectDevice that failed, or openBluetoothSettings, whether
\* it succeeded or failed.
C11_Original ==
  Done =>
    (toasts # <<>> <=>
       \/ op = "stopDiscovery" /\ FirstRejected
       \/ ConnectFailed
       \/ op = "openBluetoothSettings")

\* C11 amended: a call shows a toast (one, and only when it settles) exactly
\* when it is stopDiscovery whose cancel failed, connectDevice that failed,
\* or openBluetoothSettings that succeeded; a failed openBluetoothSettings
\* shows none, and neither does any other operation, failing or not.
C11_ToastExactlyOn ==
  /\ ~Done => toasts = <<>>
  /\ Len(toasts) <= 1
  /\ Done =>
       (toasts # <<>> <=>
          \/ op = "stopDiscovery" /\ FirstRejected
          \/ ConnectFailed
          \/ op = "openBluetoothSettings" /\ calls[1].out.kind = "resolved")
  /\ (op = "openBluetoothSettings" /\ Done /\ FirstRejected) =>
       /\ toasts = <<>>
       /\ outcome = Rejected(JsError("Failed to open Bluetooth settings", 0))

C11_Witness ==
  /\ op = "openBluetoothSettings"
  /\ Done
  /\ calls[1].out = Rejected(NativeError(1))
  /\ toasts = <<>>

\* C12: requestLocationService never rejects and is settled once: while the
\* binding has delivered no callback it is pending, and from the first
\* callback on it stays resolved with true if that callback was the success
\* callback and with false if it was the error callback (timeout included),
\* whatever further callbacks the binding delivers.
C12_LocationSettledOnce ==
  op = "requestLocationService" =>
    /\ outcome.kind # "rejected"
    /\ locals.callbacks = <<>> => outcome = Pending /\ ~Done
    /\ locals.callbacks # <<>> =>
         /\ Done
         /\ locals.callbacks[1] = "success" => outcome = Resolved(Bool(TRUE))
         /\ locals.callbacks[1] \in PositionErrors => outcome = Resolved(Bool(FALSE))
    /\ Count("getCurrentPosition") = 1

C12_Witness ==
  /\ op = "requestLocationService"
  /\ locals.callbacks = <<"timeout", "success">>
  /\ outcome = Resolved(Bool(FALSE))

\* C13: when the binding's enumeration rejects, getPairedDevices and
\* getConnectedDevice resolve to the empty list and getBondedDevices
\* rejects; when it resolves, each resolves to the very list it returned.
C13_EnumerationOutcomes ==
  (op \in {"getPairedDevices", "getConnectedDevice", "getBondedDevices"} /\ Done) =>
    /\ calls[1].prim =
         IF op = "getConnectedDevice" THEN "getConnectedDevices" ELSE "getBondedDevices"
    /\ calls[1].out.kind = "resolved" => outcome = Resolved(calls[1].out.val)
    /\ calls[1].out.kind = "rejected" =>
         IF op = "getBondedDevices"
         THEN outcome.kind = "rejected"
         ELSE outcome = Resolved(DevList(0))

C13_Witness ==
  /\ op = "getPairedDevices"
  /\ Done
  /\ calls[1].out = Rejected(NativeError(1))
  /\ outcome = Resolved(DevList(0))
====
